---- MODULE Spec2Model ----
(***************************************************************************)
(* Model of skylar_toolbox/catboost.py: update_params (reconciliation of   *)
(* cat_features / monotone_constraints with the current feature matrix),   *)
(* the fit overrides of CatBoostClassifier / CatBoostRegressor, and        *)
(* AbsoluteDifferenceCallback.after_iteration; and of                      *)
(* skylar_toolbox/sagemaker.py: the constructor of the SKLearn wrapper.    *)
(*                                                                         *)
(* A parameter dict is a function from key strings to values.  A feature   *)
(* matrix is a sequence of columns [name, dtype] with distinct names.      *)
(* Column names are strings; Rank gives their position in Python's string  *)
(* order, which is what pandas sorts by.  Metric values are integers       *)
(* (fixed-point), so abs and < are exact.                                  *)
(***************************************************************************)
EXTENDS Integers, Sequences, FiniteSets, TLC

VARIABLES
    params_dt,      \* update_params: the dict passed in (mutated in place)
    X,              \* the feature matrix of the current call
    old_dt,         \* history: params_dt as it was when update_params was entered
    old_X,          \* history: X as it was when update_params was entered
    ret,            \* update_params: [raised, value] outcome of the last call
    first_ret,      \* history: outcome of the first update_params call
    calls,          \* number of update_params calls made on params_dt
    init_params,    \* estimator: the parameters stored on it (get_params/set_params)
    pc,             \* fit: position inside the running fit call
    cls,            \* fit: the wrapper class whose fit is running
    y,              \* fit: labels argument
    kwargs,         \* fit: keyword arguments
    super_fit,      \* the wrapped library's fit invocations made by the running fit call
    prev_set,       \* history: <<p>> once a fit call that stored p has returned
    threshold_ft,   \* AbsoluteDifferenceCallback.threshold_ft
    metric_sr,      \* AbsoluteDifferenceCallback.metric_sr
    metrics,        \* info.metrics[dataset][metric]: the history of each metric
    continue_bl,    \* after_iteration: outcome of the last call
    ctor,           \* SKLearn.__init__: the caller's arguments (init_dt is the caller's dict)
    old_init_dt,    \* history: the caller's init_dt when __init__ was entered
    self_init_dt,   \* SKLearn: <<self.init_dt>> once constructed
    skl             \* SKLearn: <<kwargs srsn.SKLearn was constructed with>> once constructed

vars == <<params_dt, X, old_dt, old_X, ret, first_ret, calls, init_params, pc, cls,
          y, kwargs, super_fit, prev_set, threshold_ft, metric_sr,
          metrics, continue_bl, ctor, old_init_dt, self_init_dt, skl>>

updateVars == <<params_dt, X, old_dt, old_X, ret, first_ret, calls>>
fitVars == <<init_params, pc, cls, y, kwargs, super_fit, prev_set>>
callbackVars == <<threshold_ft, metric_sr, metrics, continue_bl>>
sklearnVars == <<ctor, old_init_dt, self_init_dt, skl>>

----------------------------------------------------------------------------
(* Bounds *)

MaxCols == 3            \* most columns in a feature matrix
MaxConstraints == 2     \* most entries in an initial monotone_constraints dict
MaxConfig == 1          \* most cat features / constraints an estimator is constructed with
MaxCalls == 2           \* most successive update_params calls on one dict
MaxIters == 2           \* most training iterations reported to the callback
MaxMetric == 2          \* metric values and thresholds range over 0..MaxMetric
MaxInitKeys == 2        \* most keys in the init_dt given to SKLearn

----------------------------------------------------------------------------
(* Values *)

\* Column names, listed in ascending Python string order.
ColumnNames == <<"a", "b", "c">>

Names == {ColumnNames[i] : i \in 1..Len(ColumnNames)}

Rank(name) == CHOOSE i \in 1..Len(ColumnNames) : ColumnNames[i] = name

Dtypes == {"object", "float64"}

Range(s) == {s[i] : i \in 1..Len(s)}

IsUnique(s) == \A i, j \in 1..Len(s) : s[i] = s[j] => i = j

SeqsUpTo(S, n) == UNION {[1..k -> S] : k \in 0..n}

\* Lists of distinct column names.
NameLists(n) == {s \in SeqsUpTo(Names, n) : IsUnique(s)}

\* pd.DataFrame with at most n distinctly named columns.
FeatureMatrices(n) ==
    {f \in SeqsUpTo([name : Names, dtype : Dtypes], n) :
        IsUnique([i \in 1..Len(f) |-> f[i].name])}

\* dicts column name -> direction with at most n entries.
ConstraintDicts(n) ==
    UNION {[D -> {-1, 0, 1}] : D \in {D \in SUBSET Names : Cardinality(D) <= n}}

\* A dict holding the keys whose option (<<>> absent, <<v>> present) is present.
MakeParams(cat, mono, iters) ==
    LET keys == (IF cat # <<>> THEN {"cat_features"} ELSE {})
                \cup (IF mono # <<>> THEN {"monotone_constraints"} ELSE {})
                \cup (IF iters # <<>> THEN {"iterations"} ELSE {})
    IN  [k \in keys |-> IF k = "cat_features" THEN cat[1]
                        ELSE IF k = "monotone_constraints" THEN mono[1]
                        ELSE iters[1]]

Option(S) == {<<>>} \cup {<<v>> : v \in S}

ParamSets ==
    {MakeParams(c, m, i) : c \in Option(NameLists(MaxCols)),
                           m \in Option(ConstraintDicts(MaxConstraints)),
                           i \in Option({100})}

\* Parameters given to an estimator's constructor.
ConfigParamSets ==
    {MakeParams(c, m, i) : c \in Option(NameLists(MaxConfig)),
                           m \in Option(ConstraintDicts(MaxConfig)),
                           i \in Option({100})}

----------------------------------------------------------------------------
(* pandas.Index operations used by update_params, on lists of names *)

columns(df) == [i \in 1..Len(df) |-> df[i].name]

IsObject(col) == col.dtype = "object"

select_dtypes_object(df) == SelectSeq(df, IsObject)

RECURSIVE Filter(_, _)
Filter(s, S) ==
    IF s = <<>> THEN <<>>
    ELSE IF Head(s) \in S THEN <<Head(s)>> \o Filter(Tail(s), S)
    ELSE Filter(Tail(s), S)

\* Index.difference in place of Index.intersection.
intersection_as_difference(self, other) == Filter(self, Names \ Range(other))

\* The old list taken as it is, columns that were dropped included.
intersection_keeps_other(self, other) == other

\* Index.intersection(other, sort=False): the elements of self found in other,
\* in the order of self.
intersection(self, other) == Filter(self, Range(other))

RECURSIVE SortNames(_)
SortNames(S) ==
    IF S = {} THEN <<>>
    ELSE LET m == CHOOSE n \in S : \A o \in S : Rank(n) <= Rank(o)
         IN  <<m>> \o SortNames(S \ {m})

\* Index.union(other, sort=False): self followed by what other adds.
union_unsorted(self, other) == self \o Filter(other, Names \ Range(self))

\* Index.union(other, sort=None): self when other is empty or equal to self,
\* other when self is empty, else the sorted union.
union(self, other) ==
    IF Len(other) = 0 \/ self = other THEN self
    ELSE IF Len(self) = 0 THEN other
    ELSE SortNames(Range(self) \cup Range(other))

----------------------------------------------------------------------------
(* update_params *)

\* d[key] in place of d.get(key, default): KeyError when the key is absent.
getitem(d, key, default) ==
    IF key \in DOMAIN d THEN [raised |-> FALSE, value |-> d[key]]
    ELSE [raised |-> TRUE, value |-> default]

\* dict.get(key, default): never raises.
get(d, key, default) ==
    IF key \in DOMAIN d THEN [raised |-> FALSE, value |-> d[key]]
    ELSE [raised |-> FALSE, value |-> default]

\* A new dict holding only the two recomputed keys.
update_replaces(d, kw) == kw

\* dict.update(**kw)
update(d, kw) ==
    [k \in DOMAIN d \cup DOMAIN kw |-> IF k \in DOMAIN kw THEN kw[k] ELSE d[k]]

new_cat_features_lt(old_cat_features_lt, df) ==
    union(intersection(columns(df), old_cat_features_lt),
          columns(select_dtypes_object(df)))

\* The old dict passed through without dropping removed columns.
new_monotone_constraints_unfiltered(old_monotone_constraints_dt, df) ==
    old_monotone_constraints_dt

\* An empty old dict re-derived from the columns, as cat_features is.
new_monotone_constraints_derived(old_monotone_constraints_dt, df) ==
    IF DOMAIN old_monotone_constraints_dt # {}
    THEN [key_sr \in {k \in DOMAIN old_monotone_constraints_dt : k \in Range(columns(df))}
            |-> old_monotone_constraints_dt[key_sr]]
    ELSE [key_sr \in Range(columns(df)) |-> 0]

new_monotone_constraints_dt(old_monotone_constraints_dt, df) ==
    IF DOMAIN old_monotone_constraints_dt # {}
    THEN [key_sr \in {k \in DOMAIN old_monotone_constraints_dt : k \in Range(columns(df))}
            |-> old_monotone_constraints_dt[key_sr]]
    ELSE old_monotone_constraints_dt

update_params(d, df) ==
    LET old_cat == get(d, "cat_features", <<>>)
        old_mono == get(d, "monotone_constraints", <<>>)
    IN  IF old_cat.raised \/ old_mono.raised
        THEN [raised |-> TRUE, value |-> d]
        ELSE [raised |-> FALSE,
              value |-> update(d,
                  [cat_features |-> new_cat_features_lt(old_cat.value, df),
                   monotone_constraints |->
                       new_monotone_constraints_dt(old_mono.value, df)])]

----------------------------------------------------------------------------
(* Specification SpecUpdate: update_params applied to arbitrary inputs, and *)
(* applied again to its own result with the same feature matrix.            *)

NoOutcome(d) == [raised |-> FALSE, value |-> d]

InitFitIdle ==
    /\ init_params = <<>>
    /\ pc = "idle"
    /\ cls = "none"
    /\ y = "none"
    /\ kwargs = <<>>
    /\ super_fit = <<>>
    /\ prev_set = <<>>

MetricNames == {"Logloss", "AUC"}

NoMetrics == [dataset \in {"learn", "validation"} |-> [m \in MetricNames |-> <<>>]]

InitCallbackIdle ==
    /\ threshold_ft = 0
    /\ metric_sr = "Logloss"
    /\ metrics = NoMetrics
    /\ continue_bl = TRUE

\* No SKLearn wrapper is constructed.
InitSKLearnIdle ==
    /\ ctor = <<>>
    /\ old_init_dt = <<>>
    /\ self_init_dt = <<>>
    /\ skl = <<>>

InitUpdate ==
    /\ params_dt \in ParamSets
    /\ X \in FeatureMatrices(MaxCols)
    /\ old_dt = params_dt
    /\ old_X = X
    /\ ret = NoOutcome(params_dt)
    /\ first_ret = NoOutcome(params_dt)
    /\ calls = 0
    /\ InitFitIdle
    /\ InitCallbackIdle
    /\ InitSKLearnIdle

\* params_dt = update_params(params_dt=params_dt, X=X); the dict is updated in
\* place and returned, the feature matrix is only read.
CallUpdateParams ==
    /\ calls < MaxCalls
    /\ old_dt' = params_dt
    /\ old_X' = X
    /\ ret' = update_params(params_dt, X)
    /\ params_dt' = ret'.value
    /\ X' = X
    /\ first_ret' = IF calls = 0 THEN ret' ELSE first_ret
    /\ calls' = calls + 1
    /\ UNCHANGED <<fitVars, callbackVars, sklearnVars>>

NextUpdate == CallUpdateParams

SpecUpdate == InitUpdate /\ [][NextUpdate]_vars

----------------------------------------------------------------------------
(* Properties of update_params (SpecUpdate) *)

\* The inputs of the last call as the claims read them: an absent key is an
\* empty collection.
OldCatFeatures ==
    IF "cat_features" \in DOMAIN old_dt THEN Range(old_dt["cat_features"]) ELSE {}

OldConstraints ==
    IF "monotone_constraints" \in DOMAIN old_dt THEN old_dt["monotone_constraints"]
    ELSE <<>>

ColumnSet == {old_X[i].name : i \in 1..Len(old_X)}

ObjectColumnSet == {old_X[i].name : i \in {j \in 1..Len(old_X) : old_X[j].dtype = "object"}}

Returned == calls >= 1 /\ ~ret.raised

\* C1: the returned cat_features, as a set, is exactly (old cat_features that
\* are columns of X) union (object-typed columns of X).
C1_CatFeaturesAreRetainedPlusObject ==
    calls >= 1 =>
        /\ ~ret.raised
        /\ "cat_features" \in DOMAIN ret.value
        /\ Range(ret.value["cat_features"]) =
               (OldCatFeatures \cap ColumnSet) \cup ObjectColumnSet

C1_Witness ==
    /\ Returned
    /\ OldCatFeatures \ ColumnSet # {}
    /\ (OldCatFeatures \cap ColumnSet) \ ObjectColumnSet # {}
    /\ ObjectColumnSet \ OldCatFeatures # {}
    /\ ColumnSet \ Range(ret.value["cat_features"]) = {}

\* C2: the returned monotone_constraints is exactly the old mapping restricted
\* to the columns of X, values unchanged.
C2_ConstraintsAreRestriction ==
    calls >= 1 =>
        /\ ~ret.raised
        /\ "monotone_constraints" \in DOMAIN ret.value
        /\ LET new == ret.value["monotone_constraints"]
           IN  /\ DOMAIN new = DOMAIN OldConstraints \cap ColumnSet
               /\ \A k \in DOMAIN new : new[k] = OldConstraints[k]

C2_Witness ==
    /\ Returned
    /\ DOMAIN OldConstraints \ ColumnSet # {}
    /\ DOMAIN OldConstraints \cap ColumnSet # {}
    /\ ColumnSet \ DOMAIN OldConstraints # {}
    /\ DOMAIN ret.value["monotone_constraints"] # {}

\* C4 as stated: a second call with the same X returns a dict equal to the
\* first call's, the cat_features list included.
C4_SecondCallReturnsEqualDict ==
    calls >= 2 => ret = first_ret

\* C4 amended: a second call with the same X returns the same keys, the same
\* set of cat_features, and equal values for every other key; the order of
\* the cat_features list may differ.
C4_SecondCallEqualUpToOrder ==
    calls >= 2 =>
        /\ ~ret.raised /\ ~first_ret.raised
        /\ DOMAIN ret.value = DOMAIN first_ret.value
        /\ Range(ret.value["cat_features"]) = Range(first_ret.value["cat_features"])
        /\ \A k \in DOMAIN ret.value \ {"cat_features"} : ret.value[k] = first_ret.value[k]

C4_Witness ==
    /\ calls >= 2 /\ ~ret.raised
    /\ ret.value["cat_features"] # first_ret.value["cat_features"]
    /\ DOMAIN ret.value["monotone_constraints"] # {}

\* C5 as stated: with no or an empty monotone_constraints entry, an empty
\* mapping stays empty and an omitted key stays omitted.
C5_OmittedKeyStaysOmitted ==
    (calls >= 1 /\ DOMAIN OldConstraints = {}) =>
        /\ ~ret.raised
        /\ "monotone_constraints" \in DOMAIN old_dt =>
               /\ "monotone_constraints" \in DOMAIN ret.value
               /\ DOMAIN ret.value["monotone_constraints"] = {}
        /\ "monotone_constraints" \notin DOMAIN old_dt =>
               "monotone_constraints" \notin DOMAIN ret.value

\* C5 amended: with no or an empty monotone_constraints entry, the result
\* holds the key monotone_constraints with an empty mapping (also when the
\* caller omitted the key); no constraint is introduced for any column.
C5_EmptyConstraintsStayEmpty ==
    (calls >= 1 /\ DOMAIN OldConstraints = {}) =>
        /\ ~ret.raised
        /\ "monotone_constraints" \in DOMAIN ret.value
        /\ DOMAIN ret.value["monotone_constraints"] = {}

C5_Witness ==
    /\ Returned
    /\ "monotone_constraints" \notin DOMAIN old_dt
    /\ "monotone_constraints" \in DOMAIN ret.value
    /\ ColumnSet # {}

\* C6: only cat_features and monotone_constraints change: every other key is
\* kept with its value, none is added or removed, and X is left as it was.
C6_OtherKeysAndMatrixUnchanged ==
    calls >= 1 =>
        /\ ~ret.raised
        /\ DOMAIN ret.value \ {"cat_features", "monotone_constraints"}
               = DOMAIN old_dt \ {"cat_features", "monotone_constraints"}
        /\ \A k \in DOMAIN old_dt \ {"cat_features", "monotone_constraints"} :
               ret.value[k] = old_dt[k]
        /\ X = old_X

C6_Witness ==
    /\ Returned
    /\ "iterations" \in DOMAIN old_dt
    /\ "cat_features" \in DOMAIN old_dt
    /\ ret.value["cat_features"] # old_dt["cat_features"]
    /\ ret.value["monotone_constraints"] # OldConstraints
    /\ X # <<>>

\* C7: update_params never raises, also when either key is missing, and for a
\* feature matrix without columns both results are empty.
C7_TotalAndEmptyForNoColumns ==
    calls >= 1 =>
        /\ ~ret.raised
        /\ {"cat_features", "monotone_constraints"} \subseteq DOMAIN ret.value
        /\ old_X = <<>> =>
               /\ ret.value["cat_features"] = <<>>
               /\ DOMAIN ret.value["monotone_constraints"] = {}

C7_Witness ==
    /\ Returned
    /\ old_X = <<>>
    /\ OldCatFeatures # {}
    /\ "monotone_constraints" \notin DOMAIN old_dt
    /\ ret.value["cat_features"] = <<>>

\* Position of a name in a list.
IndexOf(s, name) == CHOOSE i \in 1..Len(s) : s[i] = name

InColumnOrder(s) ==
    \A i, j \in 1..Len(s) :
        i < j => IndexOf(columns(old_X), s[i]) < IndexOf(columns(old_X), s[j])

InAscendingOrder(s) == \A i, j \in 1..Len(s) : i < j => Rank(s[i]) < Rank(s[j])

\* C10 as stated: the returned cat_features lists each column at most once,
\* in the column order of X.
C10_CatFeaturesInColumnOrder ==
    calls >= 1 =>
        /\ ~ret.raised
        /\ IsUnique(ret.value["cat_features"])
        /\ InColumnOrder(ret.value["cat_features"])

\* C10 amended: the returned cat_features lists each column at most once, in
\* an order fixed by the inputs: the column order of X when no old feature is
\* retained, when X has no object column, or when the retained columns are
\* exactly the object columns; ascending order of the names otherwise.
C10_CatFeaturesInColumnOrSortedOrder ==
    calls >= 1 =>
        /\ ~ret.raised
        /\ IsUnique(ret.value["cat_features"])
        /\ IF \/ OldCatFeatures \cap ColumnSet = {}
              \/ ObjectColumnSet = {}
              \/ OldCatFeatures \cap ColumnSet = ObjectColumnSet
           THEN InColumnOrder(ret.value["cat_features"])
           ELSE InAscendingOrder(ret.value["cat_features"])

C10_Witness ==
    /\ Returned
    /\ Len(ret.value["cat_features"]) >= 2
    /\ ~InColumnOrder(ret.value["cat_features"])
    /\ InAscendingOrder(ret.value["cat_features"])

----------------------------------------------------------------------------
(* Specification Spec: fit calls on a CatBoostClassifier / CatBoostRegressor *)
(* wrapper.  One fit call runs get_params, update_params, set_params and    *)
(* the wrapped library's fit, in this order; pc is the position reached.    *)

Classes == {"CatBoostClassifier", "CatBoostRegressor"}

Labels == {"y1", "y2"}

KwargSets == {<<>>, [verbose |-> FALSE]}

\* set_params left out: the stored parameters stay as they were.
set_params_skipped(stored, kw) == stored

\* cb.CatBoost.get_params(): a copy of the stored parameters.
get_params(stored) == stored

\* cb.CatBoost.set_params(**kw): every given key is stored.
set_params(stored, kw) == update(stored, kw)

Init ==
    /\ init_params \in ConfigParamSets
    /\ cls \in Classes
    /\ pc = "idle"
    /\ X = <<>>
    /\ y = "none"
    /\ kwargs = <<>>
    /\ super_fit = <<>>
    /\ prev_set = <<>>
    /\ params_dt = <<>>
    /\ old_dt = <<>>
    /\ old_X = <<>>
    /\ ret = NoOutcome(<<>>)
    /\ first_ret = NoOutcome(<<>>)
    /\ calls = 0
    /\ InitCallbackIdle
    /\ InitSKLearnIdle

\* fit(self, X, y, **kwargs) is entered; params_dt = self.get_params()
FitGetParams ==
    /\ pc = "idle"
    /\ \E df \in FeatureMatrices(MaxCols), labels \in Labels, kw \in KwargSets :
        /\ X' = df
        /\ y' = labels
        /\ kwargs' = kw
    /\ params_dt' = get_params(init_params)
    /\ old_dt' = params_dt'
    /\ old_X' = X'
    /\ ret' = NoOutcome(params_dt')
    /\ pc' = "got"
    /\ UNCHANGED <<init_params, cls, super_fit, prev_set, first_ret, calls, callbackVars, sklearnVars>>

\* params_dt = update_params(params_dt=params_dt, X=X); an exception leaves fit.
FitUpdateParams ==
    /\ pc = "got"
    /\ old_dt' = params_dt
    /\ old_X' = X
    /\ ret' = update_params(params_dt, X)
    /\ params_dt' = ret'.value
    /\ pc' = IF ret'.raised THEN "idle" ELSE "updated"
    /\ UNCHANGED <<X, init_params, cls, y, kwargs, super_fit, prev_set, first_ret,
                   calls, callbackVars, sklearnVars>>

\* self.set_params(**params_dt)
FitSetParams ==
    /\ pc = "updated"
    /\ init_params' = set_params(init_params, params_dt)
    /\ pc' = "set"
    /\ UNCHANGED <<params_dt, X, old_dt, old_X, ret, first_ret, calls, cls, y, kwargs,
                   super_fit, prev_set, callbackVars, sklearnVars>>

\* return super().fit(X=X, y=y, **kwargs): the library is entered and trains
\* with the parameters stored on the estimator at this moment.
FitSuperFit ==
    /\ pc = "set"
    /\ super_fit' = Append(super_fit,
           [base |-> cls, X |-> X, y |-> y, kwargs |-> kwargs, params |-> init_params])
    /\ pc' = "fitting"
    /\ UNCHANGED <<params_dt, X, old_dt, old_X, ret, first_ret, calls, init_params, cls,
                   y, kwargs, prev_set, callbackVars, sklearnVars>>

\* super().fit returns and so does fit; its locals are gone.
FitReturn ==
    /\ pc = "fitting"
    /\ pc' = "idle"
    /\ X' = <<>>
    /\ y' = "none"
    /\ kwargs' = <<>>
    /\ params_dt' = <<>>
    /\ old_dt' = <<>>
    /\ old_X' = <<>>
    /\ ret' = NoOutcome(<<>>)
    /\ super_fit' = <<>>
    /\ prev_set' = <<init_params>>
    /\ UNCHANGED <<first_ret, calls, init_params, cls, callbackVars, sklearnVars>>

fit == FitGetParams \/ FitUpdateParams \/ FitSetParams \/ FitSuperFit \/ FitReturn

CatBoostClassifier_fit == cls = "CatBoostClassifier" /\ fit

CatBoostRegressor_fit == cls = "CatBoostRegressor" /\ fit

Next == CatBoostClassifier_fit \/ CatBoostRegressor_fit

Spec == Init /\ [][Next]_vars

----------------------------------------------------------------------------
(* Specification SpecCallback: training iterations reported to an           *)
(* AbsoluteDifferenceCallback until it asks to stop.                        *)

MetricValues == 0..MaxMetric

abs(x) == IF x < 0 THEN -x ELSE x

Last(s) == s[Len(s)]

\* AbsoluteDifferenceCallback.after_iteration(info), info.metrics = m
after_iteration(metric, threshold, m) ==
    LET learn_metric_ft == Last(m["learn"][metric])
        validation_metric_ft == Last(m["validation"][metric])
        difference_ft == abs(validation_metric_ft - learn_metric_ft)
    IN  difference_ft < threshold

\* AbsoluteDifferenceCallback(metric_sr, threshold_ft)
InitCallback ==
    /\ metric_sr \in MetricNames
    /\ threshold_ft \in MetricValues
    /\ metrics = NoMetrics
    /\ continue_bl = TRUE
    /\ params_dt = <<>>
    /\ X = <<>>
    /\ old_dt = <<>>
    /\ old_X = <<>>
    /\ ret = NoOutcome(<<>>)
    /\ first_ret = NoOutcome(<<>>)
    /\ calls = 0
    /\ InitFitIdle
    /\ InitSKLearnIdle

\* One training iteration: the library appends the iteration's value of every
\* metric to both histories and calls after_iteration; training goes on only
\* while the callback returns True.
AfterIteration ==
    /\ continue_bl
    /\ \A m \in MetricNames : Len(metrics["learn"][m]) < MaxIters
    /\ \E v \in [{"learn", "validation"} -> [MetricNames -> MetricValues]] :
        metrics' = [dataset \in {"learn", "validation"} |->
                       [m \in MetricNames |-> Append(metrics[dataset][m], v[dataset][m])]]
    /\ continue_bl' = after_iteration(metric_sr, threshold_ft, metrics')
    /\ UNCHANGED <<threshold_ft, metric_sr, updateVars, fitVars, sklearnVars>>

NextCallback == AfterIteration

SpecCallback == InitCallback /\ [][NextCallback]_vars

----------------------------------------------------------------------------
(* Properties of fit (Spec) *)

NamesOf(df) == {df[i].name : i \in 1..Len(df)}

\* C3: whenever the wrapped library's fit is invoked, the cat_features stored
\* on the estimator and the keys of the stored monotone_constraints are
\* column names of the X of that call.
C3_LibraryFitSeesOnlyColumnsOfX ==
    \A i \in 1..Len(super_fit) :
        LET call == super_fit[i]
        IN  /\ {"cat_features", "monotone_constraints"} \subseteq DOMAIN call.params
            /\ Range(call.params["cat_features"]) \subseteq NamesOf(call.X)
            /\ DOMAIN call.params["monotone_constraints"] \subseteq NamesOf(call.X)

\* A later fit call whose X lacks a cat feature and a constrained column that
\* the previous call stored, and has a column the previous call did not see.
C3_Witness ==
    /\ pc = "fitting"
    /\ prev_set # <<>>
    /\ Range(prev_set[1]["cat_features"]) \ NamesOf(X) # {}
    /\ DOMAIN prev_set[1]["monotone_constraints"] \ NamesOf(X) # {}
    /\ Range(init_params["cat_features"]) \ Range(prev_set[1]["cat_features"]) # {}
    /\ Len(super_fit) = 1

\* C9: a fit call reads the stored params, reconciles them against the X of
\* this call, stores the result, and only then invokes the wrapped fit, once,
\* with the same X, y and kwargs; what a call stored is what the next reads.
C9_FitReconcilesThenDelegates ==
    /\ pc \in {"idle", "got", "updated", "set"} => super_fit = <<>>
    /\ pc = "got" => params_dt = init_params /\ old_dt = init_params
    /\ pc = "updated" =>
           /\ old_dt = init_params
           /\ params_dt = update_params(old_dt, X).value
    /\ pc = "set" => init_params = update_params(old_dt, X).value
    /\ pc = "fitting" =>
           /\ init_params = update_params(old_dt, X).value
           /\ super_fit = <<[base |-> cls, X |-> X, y |-> y, kwargs |-> kwargs,
                             params |-> update_params(old_dt, X).value]>>
    /\ (pc # "idle" /\ prev_set # <<>>) => old_dt = prev_set[1]
    /\ (pc = "idle" /\ prev_set # <<>>) => init_params = prev_set[1]

\* A second or later call is inside the wrapped fit, with an X other than the
\* one its old params fit and with params that differ from the old ones.
C9_Witness ==
    /\ pc = "fitting"
    /\ prev_set # <<>>
    /\ init_params # prev_set[1]
    /\ Len(super_fit) = 1
    /\ super_fit[1].kwargs # <<>>
    /\ X # <<>>

----------------------------------------------------------------------------
(* Properties of AbsoluteDifferenceCallback (SpecCallback) *)

LatestDifference ==
    abs(Last(metrics["validation"][metric_sr]) - Last(metrics["learn"][metric_sr]))

Iterated == Len(metrics["learn"][metric_sr]) >= 1

\* C8: after_iteration returns False exactly when |validation - learn| of the
\* latest values of the configured metric is greater than the threshold, and
\* True otherwise, also when the difference equals the threshold.
C8_StopsExactlyWhenDifferenceSurpassesThreshold ==
    Iterated => (continue_bl <=> ~(LatestDifference > threshold_ft))

----------------------------------------------------------------------------
(* Specification SpecSKLearn: construction of the SageMaker SKLearn wrapper. *)
(* Strings that the constructor edits are sequences of characters; the       *)
(* pieces of an f-string are kept as a tuple.                                *)

JobNameLen == 30

Sessions == {"session1", "session2"}

InstanceTypes == {"local", "ml.m5.large", "local_gpu"}

\* Source directories: short, with underscores, and longer than JobNameLen.
SourceDirectories ==
    {<<"s", "r", "c">>,
     <<"m", "y", "_", "j", "o", "b">>,
     [i \in 1..(JobNameLen + 2) |-> IF i % 4 = 0 THEN "_" ELSE "x"]}

\* sagemaker_sn.default_bucket()
default_bucket(sn) == <<"bucket-of", sn>>

\* sagemaker.get_execution_role(sagemaker_session=sn)
get_execution_role(sn) == <<"role-of", sn>>

\* str.replace('_', '-')[:30]
base_job_name(source_directory_sr) ==
    LET replaced == [i \in 1..Len(source_directory_sr) |->
                        IF source_directory_sr[i] = "_" THEN "-"
                        ELSE source_directory_sr[i]]
    IN  IF Len(replaced) <= JobNameLen THEN replaced
        ELSE SubSeq(replaced, 1, JobNameLen)

\* local_mode_bl = instance_type_sr == 'local'
local_mode_bl(instance_type_sr) == instance_type_sr = "local"

\* The defaults_dt literal and the conditional disable_profiler entry.
defaults_dt(a) ==
    LET default_bucket_sr == default_bucket(a.sagemaker_sn)
        base_job_name_sr == base_job_name(a.source_directory_sr)
        local == local_mode_bl(a.instance_type_sr)
        literal ==
            [entry_point |-> "script.py",
             framework_version |-> "0.23-1",
             source_dir |-> a.source_directory_sr,
             hyperparameters |-> a.hyperparameters_dt,
             code_location |-> <<"s3://", default_bucket_sr, "/">>,
             dependencies |-> a.dependencies_lt,
             role |-> get_execution_role(a.sagemaker_sn),
             instance_count |-> 1,
             instance_type |-> a.instance_type_sr,
             output_path |-> <<"s3://", default_bucket_sr, "/", base_job_name_sr>>,
             base_job_name |-> base_job_name_sr,
             sagemaker_session |-> IF local THEN "None" ELSE a.sagemaker_sn,
             metric_definitions |-> <<[Name |-> "Score", Regex |-> "Score: ([-]?[0-9\\.]+)"]>>,
             use_spot_instances |-> IF ~local THEN a.use_spot_instances_bl ELSE FALSE,
             max_wait |-> 1 * 60 * 60]
    IN  IF ~local THEN update(literal, [disable_profiler |-> TRUE]) ELSE literal

\* init_dt.update(defaults_dt): the caller's dict is written and the defaults win.
update_into_init_dt(target, init_dt) ==
    [defaults_dt |-> update(init_dt, target), init_dt |-> update(init_dt, target)]

\* defaults_dt.update(init_dt): both dicts after the call; only defaults_dt is
\* written.
update_defaults(target, init_dt) ==
    [defaults_dt |-> update(target, init_dt), init_dt |-> init_dt]

\* A dict of keyword arguments from one option (<<>> absent, <<v>> present)
\* per key; max_run is a key that has no default.
MakeInitDt(session, spot, profiler, count, run) ==
    LET keys == (IF session # <<>> THEN {"sagemaker_session"} ELSE {})
                \cup (IF spot # <<>> THEN {"use_spot_instances"} ELSE {})
                \cup (IF profiler # <<>> THEN {"disable_profiler"} ELSE {})
                \cup (IF count # <<>> THEN {"instance_count"} ELSE {})
                \cup (IF run # <<>> THEN {"max_run"} ELSE {})
    IN  [k \in keys |-> IF k = "sagemaker_session" THEN session[1]
                        ELSE IF k = "use_spot_instances" THEN spot[1]
                        ELSE IF k = "disable_profiler" THEN profiler[1]
                        ELSE IF k = "instance_count" THEN count[1]
                        ELSE run[1]]

\* The init_dt values a caller gives: at most MaxInitKeys keys.
InitDicts ==
    {MakeInitDt(s[1], s[2], s[3], s[4], s[5]) :
        s \in {t \in Option({"session3"}) \X Option(BOOLEAN) \X Option({FALSE})
                      \X Option({2}) \X Option({600}) :
                  Cardinality({i \in 1..5 : t[i] # <<>>}) <= MaxInitKeys}}

InitSKLearn ==
    /\ ctor \in [source_directory_sr : SourceDirectories,
                 hyperparameters_dt : {[depth |-> 6]},
                 sagemaker_sn : Sessions,
                 dependencies_lt : {<<"skylar_toolbox">>},
                 instance_type_sr : InstanceTypes,
                 use_spot_instances_bl : BOOLEAN,
                 init_dt : InitDicts]
    /\ old_init_dt = ctor.init_dt
    /\ self_init_dt = <<>>
    /\ skl = <<>>
    /\ params_dt = <<>>
    /\ X = <<>>
    /\ old_dt = <<>>
    /\ old_X = <<>>
    /\ ret = NoOutcome(<<>>)
    /\ first_ret = NoOutcome(<<>>)
    /\ calls = 0
    /\ InitFitIdle
    /\ InitCallbackIdle

\* SKLearn.__init__: the defaults are computed, init_dt is laid over them, the
\* result is kept as self.init_dt and srsn.SKLearn is constructed with it.
SKLearnInit ==
    /\ self_init_dt = <<>>
    /\ LET merged == update_defaults(defaults_dt(ctor), ctor.init_dt)
       IN  /\ old_init_dt' = ctor.init_dt
           /\ ctor' = [ctor EXCEPT !.init_dt = merged.init_dt]
           /\ self_init_dt' = <<merged.defaults_dt>>
           /\ skl' = <<merged.defaults_dt>>
    /\ UNCHANGED <<updateVars, fitVars, callbackVars>>

NextSKLearn == SKLearnInit

SpecSKLearn == InitSKLearn /\ [][NextSKLearn]_vars

----------------------------------------------------------------------------
(* Properties of SKLearn.__init__ (SpecSKLearn) *)

Defaulted(key) == key \notin DOMAIN old_init_dt

\* C11: the arguments srsn.SKLearn is constructed with are the defaults
\* overridden by init_dt: every key of init_dt carries init_dt's value; for the
\* keys init_dt leaves out, instance type 'local' gives session None,
\* use_spot_instances False whatever the caller's flag, and no
\* disable_profiler, and any other instance type gives the given session, the
\* caller's flag and disable_profiler True; the caller's init_dt is unchanged.
C11_DefaultsOverriddenByInitDt ==
    skl # <<>> =>
        LET passed == skl[1]
        IN  /\ \A k \in DOMAIN old_init_dt :
                   k \in DOMAIN passed /\ passed[k] = old_init_dt[k]
            /\ IF ctor.instance_type_sr = "local"
               THEN /\ Defaulted("sagemaker_session") => passed["sagemaker_session"] = "None"
                    /\ Defaulted("use_spot_instances") => passed["use_spot_instances"] = FALSE
                    /\ Defaulted("disable_profiler") => "disable_profiler" \notin DOMAIN passed
               ELSE /\ Defaulted("sagemaker_session") =>
                           passed["sagemaker_session"] = ctor.sagemaker_sn
                    /\ Defaulted("use_spot_instances") =>
                           passed["use_spot_instances"] = ctor.use_spot_instances_bl
                    /\ Defaulted("disable_profiler") => passed["disable_profiler"] = TRUE
            /\ ctor.init_dt = old_init_dt
            /\ self_init_dt = skl

\* Constructed in local mode with the spot flag set and not overridden, and with
\* an init_dt that overrides one default and adds a key that has none.
C11_Witness ==
    /\ skl # <<>>
    /\ ctor.instance_type_sr = "local"
    /\ ctor.use_spot_instances_bl
    /\ DOMAIN old_init_dt = {"sagemaker_session", "max_run"}
    /\ skl[1]["use_spot_instances"] = FALSE
    /\ skl[1]["sagemaker_session"] = "session3"

====
